---------------------------- MODULE Spec2Model ----------------------------
(***************************************************************************)
(* Model of delta_zk.rs: prime-field arithmetic on a native unsigned       *)
(* integer type, linear combinations, the constraint Builder, verify, and  *)
(* the toy Poseidon-like round.                                            *)
(*                                                                         *)
(* Scaling.  The source computes in u128 with P = 2^64 - 2^32 + 1.  TLC's  *)
(* integers are 32 bits wide, so the model keeps the shape of the source   *)
(* and shrinks the width: the native type has Width bits and               *)
(* P = 2^(Width/2) - 2^(Width/4) + 1.  With Width = 128 this is the        *)
(* source's constant; with Width = 8 it is the prime 13.  The relations    *)
(* the code relies on are the same at both widths: P is prime,             *)
(* P < 2^(Width/2), hence (P-1)^2 < 2^Width and 2P < 2^Width, and          *)
(* 2^Width is not a multiple of P (2^Width = -2^(Width/4) mod P).          *)
(***************************************************************************)
EXTENDS Integers, Sequences, FiniteSets, TLC

\* ------------------------------------------------------------------------
\* Native integer type and modulus
\* ------------------------------------------------------------------------

\* type F = u128: the number of bits of the native type (scaled, see above).
Width == 8

\* Number of values of the native type: results of native arithmetic are
\* taken modulo W where the code wraps.
W == 2^Width

\* const P: u128 = 0xffff_ffff_0000_0001  (= 2^64 - 2^32 + 1 at Width = 128).
P == 2^(Width \div 2) - 2^(Width \div 4) + 1

Native == 0..(W - 1)
Field  == 0..(P - 1)

\* ------------------------------------------------------------------------
\* Tiny field ops
\* ------------------------------------------------------------------------

\* fn add: (s, o) = a.overflowing_add(b); (s + o*0) % P.
\* s is the sum wrapped to the native width; the overflow flag o is
\* multiplied by 0 and so contributes nothing.
add(a, b) ==
    LET s == (a + b) % W
        o == IF a + b >= W THEN 1 ELSE 0
    IN  (s + o * 0) % P

\* fn sub: (a + P - (b % P)) % P, with the native type's wrap-around (the
\* value a release build produces; SubOverflows tells when a + P leaves the
\* native range, which a debug build answers with a panic).
sub(a, b) == ((((a + P) % W) + W - (b % P)) % W) % P

\* A faulty variant of mul that multiplies in half the width (no double-width
\* intermediate).
mul_halfwidth(a, b) == ((a * b) % (2^(Width \div 2))) % P

\* fn mul: a.wrapping_mul(b) % P.
mul(a, b) == ((a * b) % W) % P

\* Whether an intermediate value of the operation leaves the native range.
AddOverflows(a, b) == a + b >= W
SubOverflows(a, b) == (a + P >= W) \/ (((a + P) % W) < (b % P))
MulOverflows(a, b) == a * b >= W

\* A faulty variant of the loop body of exp that forgets to square the base.
ExpBodyNoSquare(x, e, r) ==
    [x |-> x, e |-> e \div 2, r |-> IF e % 2 = 1 THEN mul(r, x) ELSE r]

\* One iteration of the loop of exp:
\*   if e & 1 == 1 { r = mul(r, x); }  x = mul(x, x);  e >>= 1;
ExpBody(x, e, r) ==
    [x |-> mul(x, x), e |-> e \div 2, r |-> IF e % 2 = 1 THEN mul(r, x) ELSE r]

\* The loop of exp run to its end from (x, e, r): while e > 0 { body }  r
RECURSIVE ExpLoop(_, _, _)
ExpLoop(x, e, r) ==
    IF e > 0
    THEN LET s == ExpBody(x, e, r) IN ExpLoop(s.x, s.e, s.r)
    ELSE r

\* fn exp(x, e): r = 1; loop; r
exp(x, e) == ExpLoop(x, e, 1)

\* ------------------------------------------------------------------------
\* Toy Poseidon-like round
\* ------------------------------------------------------------------------

\* let m = [[2, 1, 1], [1, 2, 1], [1, 1, 2]]
MDS == << <<2, 1, 1>>, <<1, 2, 1>>, <<1, 1, 2>> >>

\* The S-box loop: for x in state.iter_mut() { *x = exp(*x, 5); }
SBox(st) == [i \in 1..3 |-> exp(st[i], 5)]

\* One row of the mixing layer:
\*   add(add(mul(m[i][0], s[0]), mul(m[i][1], s[1])), mul(m[i][2], s[2]))
MixRow(i, s) ==
    add(add(mul(MDS[i][1], s[1]), mul(MDS[i][2], s[2])), mul(MDS[i][3], s[3]))

\* A faulty variant of poseidon_round that writes each mixed element back before
\* computing the next one.
poseidon_round_inplace(st) ==
    LET s  == SBox(st)
        t1 == [s  EXCEPT ![1] = MixRow(1, s)]
        t2 == [t1 EXCEPT ![2] = MixRow(2, t1)]
    IN  [t2 EXCEPT ![3] = MixRow(3, t2)]

\* fn poseidon_round: S-box on every element, then s0, s1, s2 are all
\* computed from the post-S-box state and only then stored.
poseidon_round(st) ==
    LET s == SBox(st)
    IN  << MixRow(1, s), MixRow(2, s), MixRow(3, s) >>

\* ------------------------------------------------------------------------
\* Linear combinations and witnesses
\* ------------------------------------------------------------------------

\* Variable indices used by the checked scenarios (x, y, z of a gate).
VarIds == 0..2

\* w.values.get(v).unwrap_or(&0)
Get(w, v) == IF v \in DOMAIN w THEN w[v] ELSE 0

\* LinComb::new()
LinCombNew == [terms |-> << >>, const_term |-> 0]

\* LinComb::c(k): const_term = add(const_term, k)
LinCombC(l, k) == [l EXCEPT !.const_term = add(l.const_term, k)]

\* LinComb::t(var, coeff): terms.push((var, coeff))
LinCombT(l, var, coeff) == [l EXCEPT !.terms = Append(l.terms, <<var, coeff>>)]

\* The loop of eval from term i on, with accumulator acc:
\*   for (v, c) in &self.terms { acc = add(acc, mul(*c, xv)); }
RECURSIVE EvalFrom(_, _, _, _)
EvalFrom(terms, w, i, acc) ==
    IF i > Len(terms)
    THEN acc
    ELSE EvalFrom(terms, w, i + 1,
                  add(acc, mul(terms[i][2], Get(w, terms[i][1]))))

\* A faulty variant of eval that keeps only the last term (acc is overwritten
\* instead of accumulated).
eval_overwrite(l, w) ==
    IF Len(l.terms) = 0
    THEN l.const_term
    ELSE mul(l.terms[Len(l.terms)][2], Get(w, l.terms[Len(l.terms)][1]))

\* LinComb::eval: acc = const_term; loop; acc
eval(l, w) == EvalFrom(l.terms, w, 1, l.const_term)

\* ------------------------------------------------------------------------
\* Builder and verify
\* ------------------------------------------------------------------------

\* A faulty variant of the multiplication gate with y and z exchanged.
MulGateConstraintSwapped(x, y, z) ==
    [a |-> LinCombT(LinCombNew, x, 1),
     b |-> LinCombT(LinCombNew, z, 1),
     c |-> LinCombT(LinCombNew, y, 1)]

\* The constraint mul_gate pushes: A = {x:1}, B = {y:1}, C = {z:1}.
MulGateConstraint(x, y, z) ==
    [a |-> LinCombT(LinCombNew, x, 1),
     b |-> LinCombT(LinCombNew, y, 1),
     c |-> LinCombT(LinCombNew, z, 1)]

\* A faulty variant of the addition gate that leaves y out of A.
AddGateConstraintNoY(x, y, z) ==
    [a |-> LinCombT(LinCombNew, x, 1),
     b |-> LinCombC(LinCombNew, 1),
     c |-> LinCombT(LinCombNew, z, 1)]

\* The constraint add_gate pushes: A = {x:1, y:1}, B = const 1, C = {z:1}.
AddGateConstraint(x, y, z) ==
    [a |-> LinCombT(LinCombT(LinCombNew, x, 1), y, 1),
     b |-> LinCombC(LinCombNew, 1),
     c |-> LinCombT(LinCombNew, z, 1)]

\* The closure of verify for one constraint: sub(mul(a, b), c) % P == 0.
ConstraintHolds(con, w) ==
    sub(mul(eval(con.a, w), eval(con.b, w)), eval(con.c, w)) % P = 0

\* A faulty variant of verify with any() in place of all().
RECURSIVE AnyFrom(_, _, _)
AnyFrom(cons, w, i) ==
    IF i > Len(cons)
    THEN FALSE
    ELSE IF ConstraintHolds(cons[i], w) THEN TRUE ELSE AnyFrom(cons, w, i + 1)

verify_any(cons, w) == AnyFrom(cons, w, 1)

\* Iterator::all over the constraints, in order, stopping at the first
\* constraint whose closure is false.
RECURSIVE AllFrom(_, _, _)
AllFrom(cons, w, i) ==
    IF i > Len(cons)
    THEN TRUE
    ELSE IF ConstraintHolds(cons[i], w) THEN AllFrom(cons, w, i + 1) ELSE FALSE

\* fn verify(builder, wit)
verify(cons, w) == AllFrom(cons, w, 1)

\* A faulty variant of alloc that returns the counter after the increment.
AllocPostIncrement(nv) == [id |-> nv + 1, next_var |-> nv + 1]

\* Builder::alloc: let id = self.next_var; self.next_var += 1; id
\* (the value argument is not used).
AllocResult(nv) == [id |-> nv, next_var |-> nv + 1]

\* ------------------------------------------------------------------------
\* Bounds and input domains of the checked scenarios
\* ------------------------------------------------------------------------

MaxExp == 17
MaxTerms == 2
MaxConsts == 1
MaxConstraints == 2
MaxAllocs == 3

\* Witnesses over the variable indices ids with values in vals; an index
\* outside the domain is missing from the HashMap.
Witnesses(ids, vals) == UNION { [D -> vals] : D \in SUBSET ids }

\* The witness with every missing index inserted with value 0.
ZeroFill(w) == [v \in VarIds |-> Get(w, v)]

\* Arguments of LinComb::c / LinComb::t and witness values for the
\* LinComb scenarios: field elements, and one native value above P.
LinVarIds == 0..1
LinVals == {1, 2, P - 1, W - 1}

\* Elements of the permutation state: every field element, and native
\* values above P.
PermVals == Field \cup {P, W - 1}

\* Witness values for the single-gate scenarios (3 * 5 = 15, 3 + 5 = 8).
GateVals == {3, 5, 8, 15, 16, W - 1}

\* Witness values, gate arguments and constrain arguments for the
\* scenarios with several constraints.
VerVals == {1, 2, 3}
AllocVals == {3, 5, 15}
GateArgs == { <<0, 1, 2>>, <<1, 0, 2>>, <<0, 0, 1>>, <<2, 1, 0>> }
ConstrainArgs ==
    { << LinCombC(LinCombNew, 1), LinCombC(LinCombNew, 1), LinCombC(LinCombNew, 1) >>,
      << LinCombC(LinCombNew, 1), LinCombC(LinCombNew, 1), LinCombNew >>,
      << LinCombT(LinCombNew, 0, 2), LinCombC(LinCombNew, 1), LinCombT(LinCombNew, 1, 1) >>,
      << LinCombT(LinCombNew, 0, W - 1), LinCombT(LinCombNew, 1, W - 1),
         LinCombC(LinCombT(LinCombNew, 2, 1), P + 1) >> }

\* ------------------------------------------------------------------------
\* State
\* ------------------------------------------------------------------------

VARIABLES
    opA, opB,       \* the arguments of add / sub / mul
    panicked,       \* the last call ended in an overflow panic (debug build)
    ea, en,         \* the arguments of the running exp call
    ex, ee, er,     \* exp's locals x, e, r
    pc,             \* position of the exp call: "loop" or "done"
    comp,           \* which object the calls of a run act on
    lc,             \* the LinComb under construction (terms, const_term)
    cArgs,          \* history: the arguments given to LinComb::c so far
    wit,            \* the Witness (values: index -> value)
    state,          \* the permutation state [F; 3]
    constraints,    \* Builder.constraints
    next_var,       \* Builder.next_var
    allocs,         \* history: the indices alloc has returned, in order
    made,           \* history: the call that pushed each constraint
    lastCall,       \* the last call made: [op, args]
    ret,            \* the field value or index the last call returned
    result          \* the boolean the last verify call returned

vars == << opA, opB, panicked, ea, en, ex, ee, er, pc, comp, lc, cArgs, wit,
           state, constraints, next_var, allocs, made, lastCall, ret, result >>

fieldVars   == << opA, opB, panicked >>
expVars     == << ea, en, ex, ee, er, pc >>
linVars     == << lc, cArgs >>
builderVars == << constraints, next_var, allocs, made >>

Call(op, args) == [op |-> op, args |-> args]

FieldIdle   == opA = 0 /\ opB = 0 /\ panicked = FALSE
ExpIdle     == ea = 0 /\ en = 0 /\ ex = 0 /\ ee = 0 /\ er = 1 /\ pc = "done"
LinIdle     == lc = LinCombNew /\ cArgs = << >>
PermIdle    == state = << 0, 0, 0 >>
\* Builder::new(): constraints: vec![], next_var: 0
BuilderNew  == constraints = << >> /\ next_var = 0 /\ allocs = << >> /\ made = << >>
NoCall      == lastCall = Call("none", << >>) /\ ret = 0 /\ result = FALSE

\* ------------------------------------------------------------------------
\* Field operations on arbitrary native arguments
\* ------------------------------------------------------------------------

InitField ==
    /\ opA \in Native /\ opB \in Native /\ panicked = FALSE
    /\ ExpIdle /\ comp = "field" /\ LinIdle /\ wit = << >> /\ PermIdle
    /\ BuilderNew /\ NoCall

FieldAdd ==
    /\ lastCall' = Call("add", << opA, opB >>)
    /\ ret' = add(opA, opB)
    /\ panicked' = FALSE
    /\ UNCHANGED << opA, opB, expVars, comp, linVars, wit, state, builderVars, result >>

\* a + P is a checked addition in a debug build and a wrapping one in a
\* release build: when it overflows, either outcome is possible.
FieldSub ==
    /\ lastCall' = Call("sub", << opA, opB >>)
    /\ ret' = sub(opA, opB)
    /\ panicked' \in (IF SubOverflows(opA, opB) THEN BOOLEAN ELSE {FALSE})
    /\ UNCHANGED << opA, opB, expVars, comp, linVars, wit, state, builderVars, result >>

FieldMul ==
    /\ lastCall' = Call("mul", << opA, opB >>)
    /\ ret' = mul(opA, opB)
    /\ panicked' = FALSE
    /\ UNCHANGED << opA, opB, expVars, comp, linVars, wit, state, builderVars, result >>

NextField == FieldAdd \/ FieldSub \/ FieldMul

SpecField == InitField /\ [][NextField]_vars

\* C4: add(a, b) is the mathematical (a + b) mod P for every pair of
\* native arguments, also when a + b overflows the native width.
C4_AddIsSumModP ==
    lastCall.op = "add" => ret = (opA + opB) % P

\* C5: on field elements add, sub and mul return (a + b) mod P,
\* (a - b) mod P and (a * b) mod P, the result is in [0, P), and no
\* intermediate value leaves the native range (no wrap, no panic).
C5_FieldOpsExact ==
    (opA \in Field /\ opB \in Field) =>
        /\ lastCall.op = "add" =>
              ret = (opA + opB) % P /\ ret \in Field /\ ~AddOverflows(opA, opB)
        /\ lastCall.op = "sub" =>
              /\ ret = (opA - opB) % P /\ ret \in Field
              /\ ~SubOverflows(opA, opB) /\ ~panicked
        /\ lastCall.op = "mul" =>
              ret = (opA * opB) % P /\ ret \in Field /\ ~MulOverflows(opA, opB)

\* The largest field elements multiplied: (P-1)^2 = 1 mod P.
C5_Witness ==
    lastCall.op = "mul" /\ opA = P - 1 /\ opB = P - 1 /\ ret = 1

\* ------------------------------------------------------------------------
\* exp, one loop iteration per step
\* ------------------------------------------------------------------------

\* exp(a, n) has been entered: x = a, e = n, r = 1.
InitExp ==
    /\ ea \in Field /\ en \in 0..MaxExp
    /\ ex = ea /\ ee = en /\ er = 1 /\ pc = "loop"
    /\ FieldIdle /\ comp = "exp" /\ LinIdle /\ wit = << >> /\ PermIdle
    /\ BuilderNew /\ NoCall

\* while e > 0 { ... }
ExpStep ==
    /\ pc = "loop" /\ ee > 0
    /\ LET s == ExpBody(ex, ee, er)
       IN  ex' = s.x /\ ee' = s.e /\ er' = s.r
    /\ UNCHANGED << ea, en, pc, fieldVars, comp, linVars, wit, state, builderVars,
                    lastCall, ret, result >>

\* The loop condition fails: exp returns r.
ExpReturn ==
    /\ pc = "loop" /\ ee = 0
    /\ pc' = "done"
    /\ ret' = er
    /\ lastCall' = Call("exp", << ea, en >>)
    /\ UNCHANGED << ea, en, ex, ee, er, fieldVars, comp, linVars, wit, state,
                    builderVars, result >>

NextExp == ExpStep \/ ExpReturn

\* The call runs on one thread with nothing to wait for: a step that can
\* be taken is taken.
SpecExp == InitExp /\ [][NextExp]_vars /\ WF_vars(NextExp)

\* a multiplied n times by mul, starting from 1.
RECURSIVE RepeatedMul(_, _)
RepeatedMul(a, n) == IF n = 0 THEN 1 ELSE mul(RepeatedMul(a, n - 1), a)

\* C10: for a in [0, P) and n >= 0 the loop of exp terminates and returns
\* the n-fold repeated mul of a starting from 1; exp(x, 0) = 1, also for
\* x = 0.
C10_ExpTerminatesWithPower ==
    /\ [](pc = "done" => ret = RepeatedMul(ea, en) /\ (en = 0 => ret = 1))
    /\ <>(pc = "done")

\* exp(2, 5) has returned 32 mod P after three iterations.
C10_Witness ==
    pc = "done" /\ ea = 2 /\ en = 5 /\ ret = 32 % P /\ lastCall.op = "exp"

\* ------------------------------------------------------------------------
\* LinComb::c / t / eval and poseidon_round on native arguments
\* ------------------------------------------------------------------------

\* A run acts on a LinComb and a Witness, or on a permutation state; the
\* two share no data, so a mixed sequence of calls is its two projections.
InitCalls ==
    /\ FieldIdle /\ ExpIdle /\ BuilderNew /\ NoCall
    /\ \/ /\ comp = "lin"
          /\ LinIdle
          /\ wit \in Witnesses(LinVarIds, LinVals)
          /\ PermIdle
       \/ /\ comp = "perm"
          /\ LinIdle
          /\ wit = << >>
          /\ state \in [1..3 -> PermVals]

LcC(k) ==
    /\ lc' = LinCombC(lc, k)
    /\ cArgs' = Append(cArgs, k)
    /\ lastCall' = Call("c", << k >>)
    /\ UNCHANGED << fieldVars, expVars, comp, wit, state, builderVars, ret, result >>

LcT(var, coeff) ==
    /\ lc' = LinCombT(lc, var, coeff)
    /\ lastCall' = Call("t", << var, coeff >>)
    /\ UNCHANGED << cArgs, fieldVars, expVars, comp, wit, state, builderVars, ret, result >>

LcEval ==
    /\ ret' = eval(lc, wit)
    /\ lastCall' = Call("eval", << >>)
    /\ UNCHANGED << lc, cArgs, fieldVars, expVars, comp, wit, state, builderVars, result >>

\* poseidon_round(&mut state): lastCall.args keeps the input state.
PoseidonRound ==
    /\ state' = poseidon_round(state)
    /\ lastCall' = Call("poseidon_round", state)
    /\ UNCHANGED << lc, cArgs, fieldVars, expVars, comp, wit, builderVars, ret, result >>

NextCalls ==
    \/ comp = "lin" /\ Len(cArgs) < MaxConsts /\ \E k \in LinVals : LcC(k)
    \/ comp = "lin" /\ Len(lc.terms) < MaxTerms
                    /\ \E var \in LinVarIds, coeff \in LinVals : LcT(var, coeff)
    \/ comp = "lin" /\ LcEval
    \/ comp = "perm" /\ PoseidonRound

SpecCalls == InitCalls /\ [][NextCalls]_vars

\* The witness lookup of the specification: the value of v, 0 when absent.
ValueOf(w, v) == IF v \in DOMAIN w THEN w[v] ELSE 0

\* Sums over the integers, without any reduction.
RECURSIVE SumSeq(_, _)
SumSeq(q, i) == IF i > Len(q) THEN 0 ELSE q[i] + SumSeq(q, i + 1)

RECURSIVE SumTerms(_, _, _)
SumTerms(terms, w, i) ==
    IF i > Len(terms)
    THEN 0
    ELSE terms[i][2] * ValueOf(w, terms[i][1]) + SumTerms(terms, w, i + 1)

\* Every argument given to c and t, and every witness value, is in [0, P).
LinArgsInField ==
    /\ \A i \in 1..Len(cArgs) : cArgs[i] \in Field
    /\ \A i \in 1..Len(lc.terms) : lc.terms[i][2] \in Field
    /\ \A v \in DOMAIN wit : wit[v] \in Field

\* C6: on field-element arguments eval returns
\* (constant + sum of coefficient * value) mod P, repeated indices adding
\* up, and a variable missing from the witness counts as one present with
\* value 0.
C6_EvalIsSumModP ==
    (lastCall.op = "eval" /\ LinArgsInField) =>
        /\ ret = (SumSeq(cArgs, 1) + SumTerms(lc.terms, wit, 1)) % P
        /\ ret = eval(lc, ZeroFill(wit))

\* P-1 + 2*2 + (P-1)*2 with index 0 used twice, index 1 missing.
C6_Witness ==
    /\ lastCall.op = "eval" /\ LinArgsInField
    /\ cArgs = << P - 1 >>
    /\ lc.terms = << <<0, 2>>, <<0, P - 1>> >>
    /\ DOMAIN wit = {0} /\ wit[0] = 2
    /\ ret = (5 * P - 1 - 2 + 4) % P

\* C8: every field value an operation stores or returns is in [0, P): the
\* const_term and the coefficients of a LinComb, the result of eval, the
\* elements of the permutation state after a round.
C8_FieldValuesInRange ==
    /\ lc.const_term \in Field
    /\ \A i \in 1..Len(lc.terms) : lc.terms[i][2] \in Field
    /\ lastCall.op = "eval" => ret \in Field
    /\ lastCall.op = "poseidon_round" => \A i \in 1..3 : state[i] \in Field

\* M * (s0^5, s1^5, s2^5) mod P over the integers.
MathRound(s) ==
    [i \in 1..3 |->
        (MDS[i][1] * (s[1]^5) + MDS[i][2] * (s[2]^5) + MDS[i][3] * (s[3]^5)) % P]

\* C9: on a state of field elements poseidon_round leaves
\* M * (s0^5, s1^5, s2^5) mod P, every element computed from the three
\* post-S-box values; the output is a function of the input state alone.
C9_RoundIsSboxThenMix ==
    (lastCall.op = "poseidon_round" /\ \A i \in 1..3 : lastCall.args[i] \in Field) =>
        state = MathRound(lastCall.args)

\* (1, 2, 3) -> S-box (1, 6, 9) -> mixed (4, 9, 12) for P = 13.
C9_Witness ==
    /\ lastCall.op = "poseidon_round"
    /\ lastCall.args = << 1, 2, 3 >>
    /\ state = << (2 + 32 + 243) % P, (1 + 64 + 243) % P, (1 + 32 + 486) % P >>

\* ------------------------------------------------------------------------
\* Builder and verify
\* ------------------------------------------------------------------------

Alloc(val) ==
    /\ LET r == AllocResult(next_var)
       IN  /\ next_var' = r.next_var
           /\ ret' = r.id
           /\ allocs' = Append(allocs, r.id)
    /\ lastCall' = Call("alloc", << val >>)
    /\ UNCHANGED << constraints, made, fieldVars, expVars, comp, linVars, wit, state, result >>

\* Builder::constrain: self.constraints.push(Constraint { a, b, c })
Constrain(a, b, c) ==
    /\ constraints' = Append(constraints, [a |-> a, b |-> b, c |-> c])
    /\ made' = Append(made, Call("constrain", << >>))
    /\ lastCall' = Call("constrain", << >>)
    /\ UNCHANGED << next_var, allocs, fieldVars, expVars, comp, linVars, wit, state, ret, result >>

\* Builder::mul_gate: builds a, b, c and calls constrain.
MulGate(x, y, z) ==
    /\ constraints' = Append(constraints, MulGateConstraint(x, y, z))
    /\ made' = Append(made, Call("mul_gate", << x, y, z >>))
    /\ lastCall' = Call("mul_gate", << x, y, z >>)
    /\ UNCHANGED << next_var, allocs, fieldVars, expVars, comp, linVars, wit, state, ret, result >>

\* Builder::add_gate: builds a, b, c and calls constrain.
AddGate(x, y, z) ==
    /\ constraints' = Append(constraints, AddGateConstraint(x, y, z))
    /\ made' = Append(made, Call("add_gate", << x, y, z >>))
    /\ lastCall' = Call("add_gate", << x, y, z >>)
    /\ UNCHANGED << next_var, allocs, fieldVars, expVars, comp, linVars, wit, state, ret, result >>

Verify ==
    /\ result' = verify(constraints, wit)
    /\ lastCall' = Call("verify", << >>)
    /\ UNCHANGED << builderVars, fieldVars, expVars, comp, linVars, wit, state, ret >>

\* --- one gate, then verify ---

InitGate ==
    /\ FieldIdle /\ ExpIdle /\ LinIdle /\ PermIdle /\ NoCall
    /\ comp = "gate" /\ BuilderNew
    /\ wit \in Witnesses(VarIds, GateVals)

NextGate ==
    \/ constraints = << >> /\ \E x \in VarIds, y \in VarIds, z \in VarIds : MulGate(x, y, z)
    \/ constraints = << >> /\ \E x \in VarIds, y \in VarIds, z \in VarIds : AddGate(x, y, z)
    \/ Verify

SpecGate == InitGate /\ [][NextGate]_vars

\* The witness {0: v0, 1: v1, 2: v2}.
Wit3(v0, v1, v2) == (0 :> v0) @@ (1 :> v1) @@ (2 :> v2)

\* The builder holds exactly one constraint, pushed by the call op, and
\* verify has returned.
OnlyGateVerified(op) ==
    lastCall.op = "verify" /\ Len(made) = 1 /\ made[1].op = op

\* C2: a Builder whose only constraint was added by mul_gate(x, y, z)
\* verifies true iff vx * vy = vz (mod P); {3, 5, 15} verifies true and
\* {3, 5, 16} false.
C2_MulGateCorrect ==
    OnlyGateVerified("mul_gate") =>
        LET x == made[1].args[1]
            y == made[1].args[2]
            z == made[1].args[3]
        IN  /\ result = ((ValueOf(wit, x) * ValueOf(wit, y) - ValueOf(wit, z)) % P = 0)
            /\ (<< x, y, z >> = << 0, 1, 2 >> /\ wit = Wit3(3, 5, 15)) => result
            /\ (<< x, y, z >> = << 0, 1, 2 >> /\ wit = Wit3(3, 5, 16)) => ~result

\* The test add_and_mul_gate: mul_gate(0, 1, 2) under {0:3, 1:5, 2:15}.
C2_Witness ==
    /\ OnlyGateVerified("mul_gate")
    /\ made[1].args = << 0, 1, 2 >> /\ wit = Wit3(3, 5, 15)
    /\ result

\* C3: a Builder whose only constraint was added by add_gate(x, y, z)
\* verifies true iff vx + vy = vz (mod P), a missing variable counting as
\* 0; {3, 5, 8} verifies true and the same witness without y false.
C3_AddGateCorrect ==
    OnlyGateVerified("add_gate") =>
        LET x == made[1].args[1]
            y == made[1].args[2]
            z == made[1].args[3]
        IN  /\ result = ((ValueOf(wit, x) + ValueOf(wit, y) - ValueOf(wit, z)) % P = 0)
            /\ (<< x, y, z >> = << 0, 1, 2 >> /\ wit = Wit3(3, 5, 8)) => result
            /\ (<< x, y, z >> = << 0, 1, 2 >> /\ wit = (0 :> 3) @@ (2 :> 8)) => ~result

\* add_gate(0, 1, 2) under {0:3, 2:8}, y missing: 3 + 0 /= 8.
C3_Witness ==
    /\ OnlyGateVerified("add_gate")
    /\ made[1].args = << 0, 1, 2 >> /\ wit = (0 :> 3) @@ (2 :> 8)
    /\ ~result

\* --- several constraints, then verify ---

InitVerify ==
    /\ FieldIdle /\ ExpIdle /\ LinIdle /\ PermIdle /\ NoCall
    /\ comp = "verify" /\ BuilderNew
    /\ wit \in Witnesses(VarIds, VerVals)

NextVerify ==
    \/ Len(constraints) < MaxConstraints /\ \E t \in GateArgs : MulGate(t[1], t[2], t[3])
    \/ Len(constraints) < MaxConstraints /\ \E t \in GateArgs : AddGate(t[1], t[2], t[3])
    \/ Len(constraints) < MaxConstraints /\ \E t \in ConstrainArgs : Constrain(t[1], t[2], t[3])
    \/ Verify

SpecVerify == InitVerify /\ [][NextVerify]_vars

\* eval(A) * eval(B) - eval(C) = 0 (mod P), over the integers.
Satisfied(con, w) ==
    (eval(con.a, w) * eval(con.b, w) - eval(con.c, w)) % P = 0

\* The constraints of cons in every order.
Reorderings(cons) ==
    LET n == Len(cons)
        perms == { f \in [1..n -> 1..n] : \A i, j \in 1..n : f[i] = f[j] => i = j }
    IN  { [i \in 1..n |-> cons[f[i]]] : f \in perms }

\* Every constraint the scenarios can push.
AnyConstraint ==
    { MulGateConstraint(t[1], t[2], t[3]) : t \in GateArgs }
    \cup { AddGateConstraint(t[1], t[2], t[3]) : t \in GateArgs }
    \cup { [a |-> t[1], b |-> t[2], c |-> t[3]] : t \in ConstrainArgs }

\* C1: verify returns true iff every constraint satisfies
\* eval(A) * eval(B) - eval(C) = 0 (mod P); the result is the same in
\* every order of the constraints, and one falsified constraint appended
\* to a builder that verified true makes verify return false.
C1_VerifyIsConjunction ==
    lastCall.op = "verify" =>
        /\ result = (\A i \in 1..Len(constraints) : Satisfied(constraints[i], wit))
        /\ \A cons \in Reorderings(constraints) : verify(cons, wit) = result
        /\ result =>
              \A con \in AnyConstraint :
                  ~Satisfied(con, wit) => ~verify(Append(constraints, con), wit)

\* A satisfied constraint followed by a falsified one: verify is false.
C1_Witness ==
    /\ lastCall.op = "verify" /\ Len(constraints) = 2
    /\ Satisfied(constraints[1], wit) /\ ~Satisfied(constraints[2], wit)
    /\ ~result

\* --- alloc interleaved with the constraint calls ---

InitAlloc ==
    /\ FieldIdle /\ ExpIdle /\ LinIdle /\ PermIdle /\ NoCall
    /\ comp = "alloc" /\ BuilderNew
    /\ wit = << >>

NextAlloc ==
    \/ next_var < MaxAllocs /\ \E val \in AllocVals : Alloc(val)
    \/ Len(constraints) < MaxConstraints /\ \E t \in GateArgs : MulGate(t[1], t[2], t[3])
    \/ Len(constraints) < MaxConstraints /\ \E t \in GateArgs : AddGate(t[1], t[2], t[3])
    \/ Len(constraints) < MaxConstraints /\ \E t \in ConstrainArgs : Constrain(t[1], t[2], t[3])

SpecAlloc == InitAlloc /\ [][NextAlloc]_vars

\* C7: the k-th alloc returns k-1 whatever its argument and whatever calls
\* are interleaved; alloc changes next_var only (nothing of the value is
\* kept, the constraint list is untouched) and constrain / mul_gate /
\* add_gate leave next_var unchanged.
C7_AllocIndices ==
    /\ [](\A k \in 1..Len(allocs) : allocs[k] = k - 1)
    /\ [][ /\ lastCall'.op = "alloc" =>
                /\ ret' = Len(allocs)
                /\ next_var' = next_var + 1
                /\ constraints' = constraints
           /\ lastCall'.op \in {"constrain", "mul_gate", "add_gate"} =>
                /\ next_var' = next_var
                /\ Len(constraints') = Len(constraints) + 1 ]_vars

\* Three allocs with different arguments around a constraint call.
C7_Witness ==
    /\ allocs = << 0, 1, 2 >> /\ next_var = 3
    /\ Len(constraints) = 1
    /\ lastCall = Call("alloc", << 15 >>) /\ ret = 2

=============================================================================
